---- MODULE Spec2Model ----
(***************************************************************************)
(* State-machine model of sidis_time_reversal_solver.py.                   *)
(*                                                                         *)
(* Spec      models the classical part of the script (lines 15-77): the    *)
(*           step count, the particle arrays, the two Euler loops, the two *)
(*           compute_entropy calls and the two avg_pairwise_dist calls.    *)
(* SpecWave  models the pure function evolve (lines 92-96) applied to a    *)
(*           packet with +t and then to the result with -t.                *)
(*                                                                         *)
(* Arithmetic is exact.  Times are integers counted in ticks of 0.1 time   *)
(* unit (T = 100, dt = 0.1 is T = 1000, dt = 1), positions are integers    *)
(* counted in 1/PosScale length units and velocities are integers counted  *)
(* in position units per tick, so that position += velocity * dt is the    *)
(* integer update pos + vel * dt.  Floating-point rounding is not          *)
(* modelled.                                                               *)
(***************************************************************************)
EXTENDS Integers, Sequences, FiniteSets

VARIABLES
    N, T, dt, grid_size,            \* configuration (lines 15-17, 44)
    steps,                          \* line 18
    pos0,                           \* the positions drawn at line 23 (history)
    pos_fwd, vel_fwd, pos_rev, vel_rev,
    traj_fwd, traj_rev,
    pc, t,                          \* program position and loop index
    indices, grid, entropies,       \* locals of compute_entropy
    entropy_fwd, entropy_rev,
    dists,                          \* local of avg_pairwise_dist
    lyap_fwd, lyap_rev,
    err, errline,                   \* the exception that ended the run
    psi0, k_vals, tau, psi_t, psi_back, wpc   \* the wave packet (SpecWave)

classical == <<N, T, dt, grid_size, steps, pos0, pos_fwd, vel_fwd, pos_rev,
               vel_rev, traj_fwd, traj_rev, pc, t, indices, grid, entropies,
               entropy_fwd, entropy_rev, dists, lyap_fwd, lyap_rev, err, errline>>

wave == <<psi0, k_vals, tau, psi_t, psi_back, wpc>>

vars == <<classical, wave>>

----------------------------------------------------------------------------
(* Bounds of the model *)

MaxN == 2

MaxT == 3

MaxG == 2

PosScale == 10

MaxTau == 2

(* The literal 10 of line 48: the extent of the domain the positions are  *)
(* drawn in (line 23).                                                     *)
Extent == 10

DtVals == {-1, 0, 1, 2}

PosVals == {<<PosScale \div 2, Extent * PosScale - PosScale \div 2>>,
            <<(Extent * PosScale) \div 2 + PosScale \div 2,
              (Extent * PosScale) \div 2 - PosScale \div 2>>}

VelVals == {<<-2 * PosScale, 2 * PosScale>>, <<0, PosScale \div 2>>,
            <<-3 * PosScale, 0>>}

----------------------------------------------------------------------------
(* Integer helpers *)

Abs(a) == IF a < 0 THEN -a ELSE a

Min(a, b) == IF a <= b THEN a ELSE b

Max(a, b) == IF a >= b THEN a ELSE b

RECURSIVE Pow(_, _)
Pow(b, e) == IF e <= 0 THEN 1 ELSE b * Pow(b, e - 1)

(* Python's int() and numpy's astype(int) on a quotient: truncation       *)
(* toward zero.                                                            *)
TruncDiv(a, b) ==
    IF (a < 0) = (b < 0) THEN Abs(a) \div Abs(b) ELSE -(Abs(a) \div Abs(b))

(* Mathematical floor of a / b for b > 0. *)
FloorDiv(a, b) == a \div b

----------------------------------------------------------------------------
(* 1. Classical particle simulation (lines 15-39) *)

StepsOf(total, step) == TruncDiv(total, step)

NegateNone(v) == v

Negate(v) == [i \in DOMAIN v |-> <<-v[i][1], -v[i][2]>>]

ZerosPlusOne(n, np) == [s \in 1..(n + 1) |-> [i \in 1..np |-> <<0, 0>>]]

Zeros(n, np) == [s \in 1..n |-> [i \in 1..np |-> <<0, 0>>]]

EulerNoDt(pos, vel, h) ==
    [i \in DOMAIN pos |-> <<pos[i][1] + vel[i][1], pos[i][2] + vel[i][2]>>]

Euler(pos, vel, h) ==
    [i \in DOMAIN pos |-> <<pos[i][1] + vel[i][1] * h, pos[i][2] + vel[i][2] * h>>]

ComputeSteps ==
    /\ pc = "steps"
    /\ IF dt = 0
       THEN /\ pc' = "raised"
            /\ err' = "ZeroDivisionError"
            /\ errline' = 18
            /\ UNCHANGED steps
       ELSE /\ steps' = StepsOf(T, dt)
            /\ pc' = "init"
            /\ UNCHANGED <<err, errline>>
    /\ UNCHANGED <<N, T, dt, grid_size, pos0, pos_fwd, vel_fwd, pos_rev, vel_rev,
                   traj_fwd, traj_rev, t, indices, grid, entropies, entropy_fwd,
                   entropy_rev, dists, lyap_fwd, lyap_rev, wave>>

(* Lines 23-26.  pos_rev is a copy of pos_fwd taken before either loop    *)
(* runs; arrays are values here, so the forward loop's in-place update of  *)
(* pos_fwd does not reach it.                                              *)
InitParticles ==
    /\ pc = "init"
    /\ \E P \in [1..N -> PosVals], V \in [1..N -> VelVals] :
          /\ pos0' = P
          /\ pos_fwd' = P
          /\ vel_fwd' = V
          /\ pos_rev' = P
          /\ vel_rev' = Negate(V)
    /\ pc' = "alloc"
    /\ UNCHANGED <<N, T, dt, grid_size, steps, traj_fwd, traj_rev, t, indices,
                   grid, entropies, entropy_fwd, entropy_rev, dists, lyap_fwd,
                   lyap_rev, err, errline, wave>>

Alloc ==
    /\ pc = "alloc"
    /\ IF steps < 0
       THEN /\ pc' = "raised"
            /\ err' = "ValueError"
            /\ errline' = 28
            /\ UNCHANGED <<traj_fwd, traj_rev>>
       ELSE /\ traj_fwd' = Zeros(steps, N)
            /\ traj_rev' = Zeros(steps, N)
            /\ pc' = "fwd"
            /\ UNCHANGED <<err, errline>>
    /\ t' = 0
    /\ UNCHANGED <<N, T, dt, grid_size, steps, pos0, pos_fwd, vel_fwd, pos_rev,
                   vel_rev, indices, grid, entropies, entropy_fwd, entropy_rev,
                   dists, lyap_fwd, lyap_rev, wave>>

(* Lines 33-34.  traj_fwd[t] = pos_fwd copies the buffer's values into row *)
(* t of the array.                                                         *)
ForwardStep ==
    /\ pc = "fwd"
    /\ t < steps
    /\ pos_fwd' = Euler(pos_fwd, vel_fwd, dt)
    /\ traj_fwd' = [traj_fwd EXCEPT ![t + 1] = pos_fwd']
    /\ t' = t + 1
    /\ UNCHANGED <<N, T, dt, grid_size, steps, pos0, vel_fwd, pos_rev, vel_rev,
                   traj_rev, pc, indices, grid, entropies, entropy_fwd,
                   entropy_rev, dists, lyap_fwd, lyap_rev, err, errline, wave>>

ForwardDone ==
    /\ pc = "fwd"
    /\ t >= steps
    /\ pc' = "rev"
    /\ t' = 0
    /\ UNCHANGED <<N, T, dt, grid_size, steps, pos0, pos_fwd, vel_fwd, pos_rev,
                   vel_rev, traj_fwd, traj_rev, indices, grid, entropies,
                   entropy_fwd, entropy_rev, dists, lyap_fwd, lyap_rev, err,
                   errline, wave>>

ReverseStep ==
    /\ pc = "rev"
    /\ t < steps
    /\ pos_rev' = Euler(pos_rev, vel_rev, dt)
    /\ traj_rev' = [traj_rev EXCEPT ![t + 1] = pos_rev']
    /\ t' = t + 1
    /\ UNCHANGED <<N, T, dt, grid_size, steps, pos0, pos_fwd, vel_fwd, vel_rev,
                   traj_fwd, pc, indices, grid, entropies, entropy_fwd,
                   entropy_rev, dists, lyap_fwd, lyap_rev, err, errline, wave>>

ReverseDone ==
    /\ pc = "rev"
    /\ t >= steps
    /\ pc' = "entropy_fwd"
    /\ t' = 0
    /\ entropies' = <<>>
    /\ UNCHANGED <<N, T, dt, grid_size, steps, pos0, pos_fwd, vel_fwd, pos_rev,
                   vel_rev, traj_fwd, traj_rev, indices, grid, entropy_fwd,
                   entropy_rev, dists, lyap_fwd, lyap_rev, err, errline, wave>>

----------------------------------------------------------------------------
(* 2. compute_entropy (lines 44-55) *)

RECURSIVE SumOver(_, _)
SumOver(f, S) ==
    IF S = {} THEN 0
    ELSE LET c == CHOOSE x \in S : TRUE IN f[c] + SumOver(f, S \ {c})

RECURSIVE ProdPow(_, _)
ProdPow(f, S) ==
    IF S = {} THEN 1
    ELSE LET c == CHOOSE x \in S : TRUE IN Pow(f[c], f[c]) * ProdPow(f, S \ {c})

ClipNone(v, lo, hi) == v

(* np.clip(a, lo, hi) is minimum(maximum(a, lo), hi). *)
Clip(v, lo, hi) == Min(Max(v, lo), hi)

(* (p / 10 * grid_size).astype(int), clipped: p is in 1/PosScale units. *)
CellIndex(p, G) == Clip(TruncDiv(p * G, Extent * PosScale), 0, G - 1)

Indices(row, G) ==
    [i \in DOMAIN row |-> <<CellIndex(row[i][1], G), CellIndex(row[i][2], G)>>]

(* Python indexing of an axis of size G: -G..-1 wrap around, anything else *)
(* outside 0..G-1 is an IndexError.                                         *)
InBounds(i, G) == -G <= i /\ i < G

Resolve(i, G) == IF i < 0 THEN i + G ELSE i

EmptyGrid(G) == [c \in (0..(G - 1)) \X (0..(G - 1)) |-> 0]

(* for x, y in indices: grid[x, y] += 1, for the particles i..n in order. *)
RECURSIVE Fill(_, _, _, _, _)
Fill(g, idx, i, n, G) ==
    IF i > n THEN g
    ELSE LET c == <<Resolve(idx[i][1], G), Resolve(idx[i][2], G)>>
         IN Fill([g EXCEPT ![c] = @ + 1], idx, i + 1, n, G)

TotalCells(g) == Cardinality(DOMAIN g)

(* np.sum(probs) over the flattened grid. *)
Total(g) == SumOver(g, DOMAIN g)

NonNegative(g) == {c \in DOMAIN g : g[c] >= 0}

(* probs[probs > 0]: the cells that enter the sum. *)
Positive(g) == {c \in DOMAIN g : g[c] > 0}

(* -sum(p * log(p)) with p = g[c] / D over the cells kept.  The real value *)
(* S is represented exactly by w * S = ln(num / den), where w = D,         *)
(* num = D ^ (sum of the kept counts) and den = product of g[c] ^ g[c];    *)
(* with no cell kept the sum is empty and S = 0 (w = 0, num = den = 1).    *)
(* nan: a kept cell with count 0 gives 0 * log(0), or 0 / 0.               *)
ShannonEntropy(g) ==
    LET kept == Positive(g)
        D == Total(g)
    IN [nan |-> \E c \in kept : g[c] = 0,
        w   |-> D,
        num |-> Pow(D, SumOver(g, kept)),
        den |-> ProdPow(g, kept)]

EntropyTraj == IF pc = "entropy_fwd" THEN traj_fwd ELSE traj_rev

EntropyStep ==
    /\ pc \in {"entropy_fwd", "entropy_rev"}
    /\ t < Len(EntropyTraj)
    /\ LET idx == Indices(EntropyTraj[t + 1], grid_size)
       IN IF \E i \in DOMAIN idx : ~InBounds(idx[i][1], grid_size)
                                    \/ ~InBounds(idx[i][2], grid_size)
          THEN /\ pc' = "raised"
               /\ err' = "IndexError"
               /\ errline' = 50
               /\ UNCHANGED <<indices, grid, entropies, t>>
          ELSE /\ indices' = idx
               /\ grid' = Fill(EmptyGrid(grid_size), idx, 1, Len(idx), grid_size)
               /\ entropies' = Append(entropies, ShannonEntropy(grid'))
               /\ t' = t + 1
               /\ UNCHANGED <<pc, err, errline>>
    /\ UNCHANGED <<N, T, dt, grid_size, steps, pos0, pos_fwd, vel_fwd, pos_rev,
                   vel_rev, traj_fwd, traj_rev, entropy_fwd, entropy_rev, dists,
                   lyap_fwd, lyap_rev, wave>>

EntropyReturn ==
    /\ pc \in {"entropy_fwd", "entropy_rev"}
    /\ t >= Len(EntropyTraj)
    /\ IF pc = "entropy_fwd"
       THEN /\ entropy_fwd' = entropies
            /\ pc' = "entropy_rev"
            /\ UNCHANGED entropy_rev
       ELSE /\ entropy_rev' = entropies
            /\ pc' = "lyap_fwd"
            /\ UNCHANGED entropy_fwd
    /\ entropies' = <<>>
    /\ dists' = <<>>
    /\ t' = 0
    /\ UNCHANGED <<N, T, dt, grid_size, steps, pos0, pos_fwd, vel_fwd, pos_rev,
                   vel_rev, traj_fwd, traj_rev, indices, grid, lyap_fwd,
                   lyap_rev, err, errline, wave>>

----------------------------------------------------------------------------
(* 3. avg_pairwise_dist (lines 63-74) *)

PairsOf(n) == {p \in (1..n) \X (1..n) : p[1] < p[2]}

SqDist(a, b) == (a[1] - b[1]) * (a[1] - b[1]) + (a[2] - b[2]) * (a[2] - b[2])

(* total / count for one row: total is the sum of the pairs' Euclidean     *)
(* distances, kept as the squared distance of every pair.                   *)
MeanDist(row) ==
    [sq    |-> [p \in PairsOf(Len(row)) |-> SqDist(row[p[1]], row[p[2]])],
     count |-> Cardinality(PairsOf(Len(row)))]

(* np.log(np.array(dists) + 1e-8), element by element. *)
LogEps(ds) == [i \in DOMAIN ds |-> [log_of |-> ds[i]]]

ChaosTraj == IF pc = "lyap_fwd" THEN traj_fwd ELSE traj_rev

ChaosStep ==
    /\ pc \in {"lyap_fwd", "lyap_rev"}
    /\ t < Len(ChaosTraj)
    /\ LET m == MeanDist(ChaosTraj[t + 1])
       IN IF m.count = 0
          THEN /\ pc' = "raised"
               /\ err' = "ZeroDivisionError"
               /\ errline' = 73
               /\ UNCHANGED <<dists, t>>
          ELSE /\ dists' = Append(dists, m)
               /\ t' = t + 1
               /\ UNCHANGED <<pc, err, errline>>
    /\ UNCHANGED <<N, T, dt, grid_size, steps, pos0, pos_fwd, vel_fwd, pos_rev,
                   vel_rev, traj_fwd, traj_rev, indices, grid, entropies,
                   entropy_fwd, entropy_rev, lyap_fwd, lyap_rev, wave>>

ChaosReturn ==
    /\ pc \in {"lyap_fwd", "lyap_rev"}
    /\ t >= Len(ChaosTraj)
    /\ IF pc = "lyap_fwd"
       THEN /\ lyap_fwd' = LogEps(dists)
            /\ pc' = "lyap_rev"
            /\ UNCHANGED lyap_rev
       ELSE /\ lyap_rev' = LogEps(dists)
            /\ pc' = "done"
            /\ UNCHANGED lyap_fwd
    /\ dists' = <<>>
    /\ t' = 0
    /\ UNCHANGED <<N, T, dt, grid_size, steps, pos0, pos_fwd, vel_fwd, pos_rev,
                   vel_rev, traj_fwd, traj_rev, indices, grid, entropies,
                   entropy_fwd, entropy_rev, err, errline, wave>>

----------------------------------------------------------------------------
(* The classical specification *)

WaveIdle ==
    /\ psi0 = <<>> /\ k_vals = <<>> /\ tau = 0
    /\ psi_t = <<>> /\ psi_back = <<>> /\ wpc = "idle"

Init ==
    /\ N \in 0..MaxN
    /\ T \in (-MaxT)..MaxT
    /\ dt \in DtVals
    /\ grid_size \in 0..MaxG
    /\ steps = 0
    /\ pos0 = <<>> /\ pos_fwd = <<>> /\ vel_fwd = <<>>
    /\ pos_rev = <<>> /\ vel_rev = <<>>
    /\ traj_fwd = <<>> /\ traj_rev = <<>>
    /\ pc = "steps" /\ t = 0
    /\ indices = <<>> /\ grid = <<>> /\ entropies = <<>>
    /\ entropy_fwd = <<>> /\ entropy_rev = <<>>
    /\ dists = <<>> /\ lyap_fwd = <<>> /\ lyap_rev = <<>>
    /\ err = "none" /\ errline = 0
    /\ WaveIdle

Next ==
    \/ ComputeSteps
    \/ InitParticles
    \/ Alloc
    \/ ForwardStep
    \/ ForwardDone
    \/ ReverseStep
    \/ ReverseDone
    \/ EntropyStep
    \/ EntropyReturn
    \/ ChaosStep
    \/ ChaosReturn

Spec == Init /\ [][Next]_vars

----------------------------------------------------------------------------
(* 4. evolve (lines 92-96)                                                  *)
(*                                                                          *)
(* Amplitudes are Gaussian integers <<re, im>> on a grid of four points, so *)
(* that the discrete Fourier transform, whose root of unity is then i, is   *)
(* exact.  A phase is an integer counting quarter turns: the unit of k * k  *)
(* * t is chosen so that hbar / (2 m) is one quarter turn.  The initial     *)
(* amplitudes are multiples of the grid length, which keeps the division of *)
(* the inverse transform exact.                                             *)

Grid == 0..3

AmpVals == {<<0, 0>>, <<Cardinality(Grid), 0>>, <<-Cardinality(Grid), Cardinality(Grid)>>}

KVals == {-1, 0, 2}

CAdd(a, b) == <<a[1] + b[1], a[2] + b[2]>>

(* z * i^q *)
Rot(z, q) ==
    CASE q % 4 = 0 -> z
      [] q % 4 = 1 -> <<-z[2], z[1]>>
      [] q % 4 = 2 -> <<-z[1], -z[2]>>
      [] q % 4 = 3 -> <<z[2], -z[1]>>

RECURSIVE CSum(_, _)
CSum(f, S) ==
    IF S = {} THEN <<0, 0>>
    ELSE LET j == CHOOSE x \in S : TRUE IN CAdd(f[j], CSum(f, S \ {j}))

(* scipy.fft.fft: X[j] = sum over n of x[n] * exp(-2 pi i j n / len). *)
fft(x) == [j \in Grid |-> CSum([n \in Grid |-> Rot(x[n], -(j * n))], Grid)]

(* scipy.fft.ifft: x[n] = (1 / len) * sum over j of X[j] * exp(+2 pi i j n / len). *)
ifft(X) ==
    [n \in Grid |->
        LET s == CSum([j \in Grid |-> Rot(X[j], j * n)], Grid)
        IN <<s[1] \div Cardinality(Grid), s[2] \div Cardinality(Grid)>>]

(* E_k = hbar^2 k^2 / (2 m), in units of hbar quarter turns. *)
Energy(k) == k * k

PhaseAbs(k, time) == -(Energy(k) * Abs(time))

(* The exponent of exp(-1j * E_k * t / hbar), in quarter turns. *)
Phase(k, time) == -(Energy(k) * time)

(* The mass m (default 1.0) is part of the phase unit. *)
evolve(psi, k, time) ==
    LET psi_k == fft(psi)
        psi_k_t == [j \in Grid |-> Rot(psi_k[j], Phase(k[j], time))]
    IN ifft(psi_k_t)

EvolveForward ==
    /\ wpc = "start"
    /\ psi_t' = evolve(psi0, k_vals, tau)
    /\ wpc' = "forward"
    /\ UNCHANGED <<psi0, k_vals, tau, psi_back, classical>>

EvolveBack ==
    /\ wpc = "forward"
    /\ psi_back' = evolve(psi_t, k_vals, -tau)
    /\ wpc' = "back"
    /\ UNCHANGED <<psi0, k_vals, tau, psi_t, classical>>

ClassicalIdle ==
    /\ N = 0 /\ T = 0 /\ dt = 0 /\ grid_size = 0 /\ steps = 0
    /\ pos0 = <<>> /\ pos_fwd = <<>> /\ vel_fwd = <<>>
    /\ pos_rev = <<>> /\ vel_rev = <<>>
    /\ traj_fwd = <<>> /\ traj_rev = <<>>
    /\ pc = "idle" /\ t = 0
    /\ indices = <<>> /\ grid = <<>> /\ entropies = <<>>
    /\ entropy_fwd = <<>> /\ entropy_rev = <<>>
    /\ dists = <<>> /\ lyap_fwd = <<>> /\ lyap_rev = <<>>
    /\ err = "none" /\ errline = 0

InitWave ==
    /\ ClassicalIdle
    /\ psi0 \in [Grid -> AmpVals]
    /\ k_vals \in [Grid -> KVals]
    /\ tau \in (-MaxTau)..MaxTau
    /\ psi_t = <<>> /\ psi_back = <<>>
    /\ wpc = "start"

NextWave ==
    \/ EvolveForward
    \/ EvolveBack

SpecWave == InitWave /\ [][NextWave]_vars

----------------------------------------------------------------------------
(* Properties *)

(* The trajectories exist: the run is past line 29. *)
Allocated ==
    \/ pc \in {"fwd", "rev", "entropy_fwd", "entropy_rev", "lyap_fwd", "lyap_rev", "done"}
    \/ pc = "raised" /\ errline \in {50, 73}

(* The number of rows each loop has written so far. *)
FwdWritten == IF pc = "fwd" THEN t ELSE steps

RevWritten == IF pc = "fwd" THEN 0 ELSE IF pc = "rev" THEN t ELSE steps

(* C1: spectral round trip: evolve(evolve(psi, k, +t), k, -t) is psi,      *)
(* element by element, for every packet, wavenumber grid and time.          *)
C1_RoundTrip == wpc = "back" => psi_back = psi0

C1_Witness ==
    /\ wpc = "back"
    /\ tau # 0
    /\ psi_t # psi0
    /\ psi_back = psi0

(* C2: velocity mirror symmetry: in every state of the run, for every      *)
(* particle i and axis d, vel_rev[i][d] = -vel_fwd[i][d].                   *)
C2_VelocityMirror ==
    /\ Len(vel_rev) = Len(vel_fwd)
    /\ Allocated => Len(vel_fwd) = N
    /\ \A i \in DOMAIN vel_fwd : \A d \in 1..2 : vel_rev[i][d] = -vel_fwd[i][d]

C2_Witness ==
    /\ pc = "done"
    /\ steps >= 2
    /\ N >= 2
    /\ \E i \in DOMAIN vel_fwd : vel_fwd[i][1] # 0 /\ vel_rev[i][1] = -vel_fwd[i][1]

(* 0 <= S <= ln(M) for the entropy value e, which holds w * S =             *)
(* ln(num / den): den <= num and num <= M^w * den.                          *)
EntropyInBounds(e, M) ==
    /\ ~e.nan
    /\ e.den <= e.num
    /\ e.num <= Pow(M, e.w) * e.den

(* C3: entropy bounds: with N >= 1 particles and grid resolution G >= 1,   *)
(* every entropy value satisfies 0 <= entropy <= ln(min(N, G^2)); the       *)
(* occupied cells are at most min(N, G^2) and the probabilities sum to 1.   *)
C3_EntropyBounds ==
    (N >= 1 /\ grid_size >= 1) =>
        LET M == Min(N, grid_size * grid_size) IN
        /\ \A i \in DOMAIN entropies : EntropyInBounds(entropies[i], M)
        /\ \A i \in DOMAIN entropy_fwd : EntropyInBounds(entropy_fwd[i], M)
        /\ \A i \in DOMAIN entropy_rev : EntropyInBounds(entropy_rev[i], M)
        /\ entropies # <<>> =>
              /\ Cardinality({c \in DOMAIN grid : grid[c] > 0}) <= M
              /\ SumOver(grid, {c \in DOMAIN grid : grid[c] > 0})
                    = entropies[Len(entropies)].w

C3_Witness ==
    /\ N >= 2
    /\ grid_size >= 2
    /\ pc = "done"
    /\ \E i \in DOMAIN entropy_fwd : entropy_fwd[i].den < entropy_fwd[i].num
    /\ \E i \in DOMAIN entropy_rev : entropy_rev[i].den = entropy_rev[i].num

(* Every particle of the step just binned is in one and the same cell. *)
AllSameCell ==
    /\ N >= 1
    /\ Len(indices) = N
    /\ \A i, j \in DOMAIN indices : indices[i] = indices[j]

(* C4: entropy degeneracy: when all N >= 1 particles of a step are binned  *)
(* into the same cell, the entropy of that step is exactly 0.               *)
C4_EntropyDegenerate ==
    (entropies # <<>> /\ AllSameCell) =>
        LET e == entropies[Len(entropies)]
        IN ~e.nan /\ e.num = e.den

C4_Witness ==
    /\ entropies # <<>>
    /\ AllSameCell
    /\ N >= 2
    /\ grid_size >= 2
    /\ entropies[Len(entropies)].num = entropies[Len(entropies)].den

(* C5: the chaos computation on a trajectory with no particle pairs        *)
(* (N = 0 or N = 1) raises and never returns a series, whatever the step    *)
(* count.                                                                   *)
C5_NoPairsRaises == N <= 1 => pc \notin {"lyap_rev", "done"}

(* C6: a step count int(T / dt) <= 0 gives empty forward and reverse       *)
(* trajectories and raises no error while they are allocated or filled.     *)
C6_NonPositiveStepsEmpty ==
    (steps <= 0 /\ (Allocated \/ (pc = "raised" /\ errline = 28))) =>
        /\ pc # "raised"
        /\ Len(traj_fwd) = 0
        /\ Len(traj_rev) = 0

(* C7: compute_entropy with grid_size = 0 raises at entry, for every       *)
(* trajectory, and never returns an entropy series.                         *)
C7_ZeroGridRejected ==
    grid_size = 0 => pc \notin {"entropy_rev", "lyap_fwd", "lyap_rev", "done"}

(* q is int(a / b): the quotient truncated toward zero. *)
IsTruncatedQuotient(q, a, b) ==
    /\ Abs(q) * Abs(b) <= Abs(a)
    /\ Abs(a) < (Abs(q) + 1) * Abs(b)
    /\ q # 0 => ((q < 0) = ((a < 0) # (b < 0)))

EntropyOfRow(row) ==
    ShannonEntropy(Fill(EmptyGrid(grid_size), Indices(row, grid_size), 1,
                        Len(row), grid_size))

(* C8: series lengths: both trajectories have int(T / dt) rows (1000 for   *)
(* T = 100, dt = 0.1), and the entropy and chaos series of a trajectory     *)
(* hold one value per time step, in trajectory time order.                  *)
C8_SeriesLengths ==
    /\ StepsOf(1000, 1) = 1000
    /\ Allocated =>
          /\ IsTruncatedQuotient(steps, T, dt)
          /\ Len(traj_fwd) = steps
          /\ Len(traj_rev) = steps
    /\ pc \in {"entropy_rev", "lyap_fwd", "lyap_rev", "done"} =>
          /\ Len(entropy_fwd) = Len(traj_fwd)
          /\ \A i \in DOMAIN entropy_fwd : entropy_fwd[i] = EntropyOfRow(traj_fwd[i])
    /\ pc \in {"lyap_fwd", "lyap_rev", "done"} =>
          /\ Len(entropy_rev) = Len(traj_rev)
          /\ \A i \in DOMAIN entropy_rev : entropy_rev[i] = EntropyOfRow(traj_rev[i])
    /\ pc \in {"lyap_rev", "done"} =>
          /\ Len(lyap_fwd) = Len(traj_fwd)
          /\ \A i \in DOMAIN lyap_fwd : lyap_fwd[i].log_of = MeanDist(traj_fwd[i])
    /\ pc = "done" =>
          /\ Len(lyap_rev) = Len(traj_rev)
          /\ \A i \in DOMAIN lyap_rev : lyap_rev[i].log_of = MeanDist(traj_rev[i])

C8_Witness ==
    /\ pc = "done"
    /\ N >= 2
    /\ steps >= 2
    /\ Len(entropy_fwd) = steps
    /\ Len(lyap_rev) = steps

(* C9: trajectory content: row s of traj_fwd is the initial position after *)
(* s applications of position += velocity * dt with the original            *)
(* velocities, row s of traj_rev the same initial position after s          *)
(* applications with the negated velocities, and a written row is never     *)
(* changed by a later step.                                                 *)
C9_TrajectoryContent ==
    Allocated =>
        /\ \A s \in 1..FwdWritten : \A i \in 1..N : \A d \in 1..2 :
              traj_fwd[s][i][d] = pos0[i][d] + s * (vel_fwd[i][d] * dt)
        /\ \A s \in 1..RevWritten : \A i \in 1..N : \A d \in 1..2 :
              traj_rev[s][i][d] = pos0[i][d] + s * ((-vel_fwd[i][d]) * dt)

C9_Witness ==
    /\ pc = "done"
    /\ N >= 1
    /\ steps >= 2
    /\ dt # 1
    /\ traj_fwd[1] # traj_fwd[2]
    /\ traj_rev[steps] # traj_fwd[steps]
    /\ pos_fwd # pos0

(* floor(p / extent * G) clipped into [0, G - 1]. *)
ClampedFloor(p, G) ==
    LET f == FloorDiv(p * G, Extent * PosScale)
    IN IF f < 0 THEN 0 ELSE IF f > G - 1 THEN G - 1 ELSE f

(* C10: clipped binning: in every step each particle is counted in the     *)
(* cell floor(position / extent * G) clipped into [0, G-1] per axis, also   *)
(* for negative positions and positions beyond the domain; every particle   *)
(* is counted in exactly one cell and the counts of a step sum to N.        *)
C10_ClippedBinning ==
    (pc \in {"entropy_fwd", "entropy_rev"} /\ entropies # <<>> /\ grid_size >= 1) =>
        LET row == EntropyTraj[t] IN
        /\ Len(indices) = N
        /\ \A i \in 1..N : \A d \in 1..2 :
              indices[i][d] = ClampedFloor(row[i][d], grid_size)
        /\ \A c \in DOMAIN grid :
              grid[c] = Cardinality({i \in 1..N : indices[i] = c})
        /\ SumOver(grid, DOMAIN grid) = N

C10_Witness ==
    /\ pc \in {"entropy_fwd", "entropy_rev"}
    /\ entropies # <<>>
    /\ grid_size >= 2
    /\ N >= 2
    /\ \E i \in 1..N :
          /\ EntropyTraj[t][i][1] < 0
          /\ TruncDiv(EntropyTraj[t][i][1] * grid_size, Extent * PosScale)
                # FloorDiv(EntropyTraj[t][i][1] * grid_size, Extent * PosScale)
          /\ EntropyTraj[t][i][2] > Extent * PosScale
          /\ indices[i] = <<0, grid_size - 1>>
    /\ SumOver(grid, DOMAIN grid) = N

====
